---- MODULE Spec2Model ----
(***************************************************************************)
(* Line-delimited JSON-RPC over a Unix domain socket:                      *)
(*   SocketServer (packages/base/src/utils/SocketServer.ts) and            *)
(*   RemoteSkill.call (packages/app/src/skills/RemoteSkill.ts).            *)
(*                                                                         *)
(* Text is a sequence of characters.  A character is a record: the frame   *)
(* separator [ch |-> "\n"], whitespace [ch |-> " "], a byte that is not    *)
(* JSON [ch |-> "x"], and the two halves of a serialised JSON object,      *)
(* [ch |-> "{", obj |-> o] and [ch |-> "}"].  The JSON values carried as   *)
(* params and results are strings; "undefined" stands for the JS value     *)
(* undefined, which JSON.stringify leaves out of an object.                *)
(***************************************************************************)
EXTENDS Integers, Sequences, FiniteSets, TLC

VARIABLES
  buffer,     \* SocketServer.handleConnection: `buffer` of each connection
  invs,       \* per connection: data-handler invocations suspended at `await`
  c2s,        \* per connection: characters written by the peer, not yet read
  s2c,        \* per connection: characters written by the server, not yet read
  peerEnded,  \* per connection: the peer has called socket.end()
  srvEnded,   \* per connection: the server side of the socket has ended
  stream,     \* history: all characters the server has read on the connection
  chunks,     \* history: the number of chunks the server has read
  decoded,    \* history: the lines the server passed to JSON.parse
  written,    \* history: the response objects the server wrote
  call,       \* per connection: the RemoteSkill.call() that opened it
  now,        \* Date.now(), in milliseconds
  server,     \* SocketServer: `this.server` and the state of its listener
  socketFile, \* the file system entry at `this.socketPath`
  dirWritable,\* the socket directory lets the process unlink and create files
  startP,     \* the promise returned by the latest start()
  stopP,      \* the promise returned by the latest stop()
  removed,    \* history: the latest start() unlinked an existing file
  sockets,    \* the connections the listener accepted that are still open
  className,  \* the logical name of the skill, as given to `new SocketServer`
  socketDir,  \* the base directory given to the constructors, or none
  socketPath, \* SocketServer: `this.socketPath`
  remotePath, \* RemoteSkill: `this.socketPath`
  otherServer \* `this.server` of a second SocketServer built from the same name

\* the names and paths the two constructors work with
naming == <<className, socketDir, socketPath, remotePath>>

\* the state of the server's life cycle, apart from its connections, and
\* the paths
life == <<server, socketFile, dirWritable, startP, stopP, removed, naming,
          otherServer>>

vars == <<buffer, invs, c2s, s2c, peerEnded, srvEnded,
          stream, chunks, decoded, written, call, now, life, sockets>>

----------------------------------------------------------------------------
(* Bounds of the model *)

\* total number of characters the raw peers write over all connections
MaxStreamLen == 7

\* number of chunks the server reads on one connection
MaxChunks == 3

\* the clock advances in steps of CallTimeout \div TimerSteps milliseconds,
\* MaxTicks times
TimerSteps == 1
MaxTicks == 2

\* number of arguments of a call whose arguments are enumerated
MaxArgs == 2

\* number of characters a server that answers at will writes to a call
MaxReplyLen == 6

\* number of characters of a logical name
MaxNameLen == 4

Conns == {1, 2}

----------------------------------------------------------------------------
(* Characters, lines and the JSON codec *)

Undefined == "undefined"

NL == [ch |-> "\n"]
SP == [ch |-> " "]
XX == [ch |-> "x"]
CloseBrace == [ch |-> "}"]

Last(s) == s[Len(s)]

IsWhite(c) == c.ch = " "

\* String.prototype.split('\n'): the pieces between separators, always >= 1
RECURSIVE SplitFrom(_, _, _)
SplitFrom(s, i, cur) ==
  IF i > Len(s) THEN <<cur>>
  ELSE IF s[i].ch = "\n" THEN <<cur>> \o SplitFrom(s, i + 1, <<>>)
  ELSE SplitFrom(s, i + 1, Append(cur, s[i]))

Split(s) == SplitFrom(s, 1, <<>>)

\* String.prototype.trim(): strips leading and trailing whitespace
RECURSIVE TrimLeft(_)
TrimLeft(s) ==
  IF s # <<>> /\ IsWhite(s[1]) THEN TrimLeft(Tail(s)) ELSE s

RECURSIVE TrimRight(_)
TrimRight(s) ==
  IF s # <<>> /\ IsWhite(Last(s)) THEN TrimRight(SubSeq(s, 1, Len(s) - 1)) ELSE s

Trim(s) == TrimRight(TrimLeft(s))

\* JSON.stringify of an object: fields whose value is undefined are omitted
JSONStringify(o) ==
  LET keep == {f \in DOMAIN o : f = "error" \/ o[f] # Undefined}
  IN  <<[ch |-> "{", obj |-> [f \in keep |-> o[f]]], CloseBrace>>

\* JSON.parse: the object, or a SyntaxError
JSONParse(line) ==
  IF Len(line) = 2 /\ line[1].ch = "{" /\ line[2] = CloseBrace
  THEN [ok |-> TRUE, value |-> line[1].obj]
  ELSE [ok |-> FALSE]

\* property read of a parsed object: an absent field reads as undefined
Get(o, f) == IF f \in DOMAIN o THEN o[f] ELSE Undefined

Frame(o) == JSONStringify(o) \o <<NL>>

----------------------------------------------------------------------------
(* classNameToSocketName and the socket path *)

\* A string is the sequence of its characters.  The names that are
\* enumerated are made of: a lowercase letter, two uppercase letters, a
\* digit and the underscore.
Alphabet == {"a", "A", "B", "1", "_"}

\* the character classes [a-z] and [A-Z], for the letters in use
IsLower(c) == c \in {"a", "b", "e", "i", "k", "l", "o", "r", "s", "w"}
IsUpper(c) == c \in {"A", "B", "S", "W"}

\* String.prototype.toLowerCase, on one character and on a string
Lower(c) ==
  CASE c = "A" -> "a" [] c = "B" -> "b" [] c = "S" -> "s" [] c = "W" -> "w"
    [] OTHER -> c
ToLowerCase(str) == [i \in 1..Len(str) |-> Lower(str[i])]

\* a plausible slip: the regular expression lacks its g flag
RECURSIVE ReplaceFirstOnly(_, _)
ReplaceFirstOnly(str, i) ==
  IF i > Len(str) THEN <<>>
  ELSE IF i < Len(str) /\ IsLower(str[i]) /\ IsUpper(str[i + 1])
  THEN <<str[i], "_", str[i + 1]>> \o SubSeq(str, i + 2, Len(str))
  ELSE <<str[i]>> \o ReplaceFirstOnly(str, i + 1)

\* `.replace(/([a-z])([A-Z])/g, '$1_$2')`: the matches are found from left
\* to right, each search starting after the previous match
RECURSIVE Replace(_, _)
Replace(str, i) ==
  IF i > Len(str) THEN <<>>
  ELSE IF i < Len(str) /\ IsLower(str[i]) /\ IsUpper(str[i + 1])
  THEN <<str[i], "_", str[i + 1]>> \o Replace(str, i + 2)
  ELSE <<str[i]>> \o Replace(str, i + 1)

\* a plausible slip: one match only is replaced
classNameFirstOnly(name) == ToLowerCase(ReplaceFirstOnly(name, 1))

classNameToSocketName(name) == ToLowerCase(Replace(name, 1))

\* the constructors' default parameter: `socketDir: string = '/tmp'`
NoDir == <<"undefined">>
Tmp == <<"/", "t", "m", "p">>
DirOrDefault(dir) == IF dir = NoDir THEN Tmp ELSE dir

\* path.normalize on a path without "." and ".." segments: repeated
\* separators become one
RECURSIVE Normalize(_)
Normalize(path) ==
  IF Len(path) < 2 THEN path
  ELSE IF path[1] = "/" /\ path[2] = "/" THEN Normalize(Tail(path))
  ELSE <<path[1]>> \o Normalize(Tail(path))

\* path.join of two non-empty segments
PathJoin(a, b) == Normalize(a \o <<"/">> \o b)

SockSuffix == <<".", "s", "o", "c", "k">>

\* a plausible slip: the client uses the name it is given as it is
RemotePathUnconverted(skillName, dir) ==
  PathJoin(DirOrDefault(dir), skillName \o SockSuffix)

\* RemoteSkill constructor:
\* path.join(socketDir, `${classNameToSocketName(skillName)}.sock`)
RemotePathOf(skillName, dir) ==
  PathJoin(DirOrDefault(dir), classNameToSocketName(skillName) \o SockSuffix)

\* SocketServer constructor: path.join(socketDir, `${socketName}.sock`)
SocketPathOf(name, dir) ==
  PathJoin(DirOrDefault(dir), classNameToSocketName(name) \o SockSuffix)

\* `new SocketServer(className, socketDir)`
NewSocketServer ==
  /\ socketPath = <<>>
  /\ socketPath' = SocketPathOf(className, socketDir)
  /\ UNCHANGED <<className, socketDir, remotePath>>
  /\ UNCHANGED <<server, socketFile, dirWritable, startP, stopP, removed, sockets>>
  /\ UNCHANGED otherServer
  /\ UNCHANGED <<buffer, invs, c2s, s2c, peerEnded, srvEnded,
                 stream, chunks, decoded, written, call, now>>

\* `new RemoteSkill(skillName, socketDir)`
NewRemoteSkill(skillName) ==
  /\ remotePath = <<>>
  /\ remotePath' = RemotePathOf(skillName, socketDir)
  /\ UNCHANGED <<className, socketDir, socketPath>>
  /\ UNCHANGED <<server, socketFile, dirWritable, startP, stopP, removed, sockets>>
  /\ UNCHANGED otherServer
  /\ UNCHANGED <<buffer, invs, c2s, s2c, peerEnded, srvEnded,
                 stream, chunks, decoded, written, call, now>>

\* the skill of the repository, under the default directory, with its
\* server and its client constructed
WebBrowserSkill ==
  <<"W", "e", "b", "B", "r", "o", "w", "s", "e", "r", "S", "k", "i", "l", "l">>

Named ==
  /\ className = WebBrowserSkill
  /\ socketDir = NoDir
  /\ socketPath = SocketPathOf(WebBrowserSkill, NoDir)
  /\ remotePath = RemotePathOf(WebBrowserSkill, NoDir)

\* the names of at most len characters
Names(len) == UNION {[1..n -> Alphabet] : n \in 1..len}

\* base directories: none given, "/tmp" given, one with a trailing separator
Dirs == {NoDir, Tmp, <<"/", "r", "/">>}

----------------------------------------------------------------------------
(* SocketServer: the registry and handleRequest *)

\* the registered handlers: echo resolves to its params, boom throws
\* Error("boom"), hang never settles
methods == {"echo", "boom", "hang"}

Handler(method, params) ==
  CASE method = "echo" -> [kind |-> "resolve", value |-> params]
    [] method = "boom" -> [kind |-> "reject", message |-> "boom"]
    [] OTHER           -> [kind |-> "never"]

\* a plausible slip: the wrong reserved code
MethodNotFoundAsInternal(request) ==
  [jsonrpc |-> "2.0",
   error   |-> [code |-> -32603, message |-> "Method not found"],
   id      |-> Get(request, "id")]

MethodNotFound(request) ==
  [jsonrpc |-> "2.0",
   error   |-> [code |-> -32601, message |-> "Method not found"],
   id      |-> Get(request, "id")]

\* a plausible slip: the handler's promise is serialised instead of awaited
ResultResponseNotAwaited(request, result) ==
  [jsonrpc |-> "2.0", result |-> "{}", id |-> Get(request, "id")]

ResultResponse(request, result) ==
  [jsonrpc |-> "2.0", result |-> result, id |-> Get(request, "id")]

\* a plausible slip: the failure's message is not carried
InternalErrorNoData(request, message) ==
  [jsonrpc |-> "2.0",
   error   |-> [code |-> -32603, message |-> "Internal error"],
   id      |-> Get(request, "id")]

InternalError(request, message) ==
  [jsonrpc |-> "2.0",
   error   |-> [code |-> -32603, message |-> "Internal error", data |-> message],
   id      |-> Get(request, "id")]

ParseError ==
  [jsonrpc |-> "2.0",
   error   |-> [code |-> -32700, message |-> "Parse error"],
   id      |-> Undefined]

\* handleRequest once the awaited handler has settled with outcome h
HandleRequest(request, h) ==
  IF h.kind = "resolve" THEN ResultResponse(request, h.value)
  ELSE InternalError(request, h.message)

\* the object JSON.stringify(response) puts on the wire
Wire(response) == JSONStringify(response)[1].obj

----------------------------------------------------------------------------
(* SocketServer.handleConnection: the data handler *)

\* a plausible slip: the loop lacks `if (line)`, and a blank line fails to
\* parse
RECURSIVE LoopParsesBlank(_, _, _)
LoopParsesBlank(lines, i, acc) ==
  IF i > Len(lines) - 1 THEN [acc EXCEPT !.at = 0]
  ELSE
    LET line == Trim(lines[i])
        p    == JSONParse(line)
    IN  IF line = <<>> \/ ~p.ok
        THEN LoopParsesBlank(lines, i + 1,
               [acc EXCEPT !.out = Append(@, ParseError),
                           !.dec = Append(@, line)])
        ELSE IF Get(p.value, "method") \notin methods
        THEN LoopParsesBlank(lines, i + 1,
               [acc EXCEPT !.out = Append(@, MethodNotFound(p.value)),
                           !.dec = Append(@, line)])
        ELSE [acc EXCEPT !.at  = i,
                         !.dec = Append(@, line)]

\* The for-loop over lines[i .. Len-1] from index i, run until it suspends at
\* `await handler(...)` (at = index of the awaited line) or ends (at = 0).
\* out: responses passed to socket.write, dec: lines passed to JSON.parse.
\* A request without a registered
\* handler is answered within the same turn of the event loop: its await
\* resumes in a microtask, before any other socket event is delivered.
RECURSIVE Loop(_, _, _)
Loop(lines, i, acc) ==
  IF i > Len(lines) - 1 THEN [acc EXCEPT !.at = 0]
  ELSE
    LET line == Trim(lines[i]) IN
    IF line = <<>> THEN Loop(lines, i + 1, acc)
    ELSE
      LET p == JSONParse(line) IN
      IF ~p.ok
      THEN Loop(lines, i + 1, [acc EXCEPT !.out = Append(@, ParseError),
                                          !.dec = Append(@, line)])
      ELSE IF Get(p.value, "method") \notin methods
      THEN Loop(lines, i + 1, [acc EXCEPT !.out = Append(@, MethodNotFound(p.value)),
                                          !.dec = Append(@, line)])
      ELSE [acc EXCEPT !.at  = i,
                       !.dec = Append(@, line)]

NoAcc == [out |-> <<>>, dec |-> <<>>, at |-> 0]

RECURSIVE Frames(_)
Frames(out) ==
  IF out = <<>> THEN <<>> ELSE Frame(Head(out)) \o Frames(Tail(out))

RECURSIVE WireAll(_)
WireAll(out) ==
  IF out = <<>> THEN <<>> ELSE <<Wire(Head(out))>> \o WireAll(Tail(out))

\* a plausible slip: the partial tail is dropped instead of kept
RemainderDropped(lines) == <<>>

\* `buffer = lines[lines.length - 1]`: the text after the last newline
Remainder(lines) == Last(lines)

RemoveAt(s, j) == SubSeq(s, 1, j - 1) \o SubSeq(s, j + 1, Len(s))

\* the request an invocation is awaiting the handler of
Awaited(inv) == JSONParse(Trim(inv.lines[inv.i])).value

\* a plausible slip: one socket shared by all connections, so that responses
\* go to the connection accepted last
EffectsOnLastSocket(c, res) ==
  LET d == CHOOSE x \in Conns : \A y \in Conns : y <= x IN
  /\ s2c' = [s2c EXCEPT ![d] = IF srvEnded[d] THEN @ ELSE @ \o Frames(res.out)]
  /\ written' = [written EXCEPT ![d] = IF srvEnded[d] THEN @ ELSE @ \o WireAll(res.out)]
  /\ decoded' = [decoded EXCEPT ![c] = @ \o res.dec]

\* a plausible slip: the server keeps one table of sockets by request id,
\* so that a response goes to the connection that used its id last
EffectsById(c, res) ==
  LET same == {x \in Conns : call[x].st # "idle" /\ call[c].st # "idle"
                               /\ call[x].requestId = call[c].requestId} \cup {c}
      d    == CHOOSE x \in same : \A y \in same : y <= x
  IN
  /\ s2c' = [s2c EXCEPT ![d] = IF srvEnded[d] THEN @ ELSE @ \o Frames(res.out)]
  /\ written' = [written EXCEPT ![d] = IF srvEnded[d] THEN @ ELSE @ \o WireAll(res.out)]
  /\ decoded' = [decoded EXCEPT ![c] = @ \o res.dec]

\* a plausible slip: responses are written to every open connection
EffectsBroadcast(c, res) ==
  /\ s2c' = [d \in Conns |-> IF srvEnded[d] THEN s2c[d] ELSE s2c[d] \o Frames(res.out)]
  /\ written' = [d \in Conns |->
                   IF srvEnded[d] THEN written[d] ELSE written[d] \o WireAll(res.out)]
  /\ decoded' = [decoded EXCEPT ![c] = @ \o res.dec]

\* the effects of one run of the loop on connection c: socket.write of every
\* response (a write after the socket has ended only raises the logged
\* 'error' event) and the history variables
Effects(c, res) ==
  /\ s2c' = [s2c EXCEPT ![c] = IF srvEnded[c] THEN @ ELSE @ \o Frames(res.out)]
  /\ written' = [written EXCEPT ![c] = IF srvEnded[c] THEN @ ELSE @ \o WireAll(res.out)]
  /\ decoded' = [decoded EXCEPT ![c] = @ \o res.dec]

\* a plausible slip: the connection is closed after an error response
ServerDataClosesOnError(c, n) ==
  /\ ~srvEnded[c]
  /\ chunks[c] < MaxChunks
  /\ n \in 1..Len(c2s[c])
  /\ LET data  == SubSeq(c2s[c], 1, n)
         buf   == buffer[c] \o data
         lines == Split(buf)
         res   == Loop(lines, 1, NoAcc)
     IN  /\ c2s' = [c2s EXCEPT ![c] = SubSeq(@, n + 1, Len(@))]
         /\ stream' = [stream EXCEPT ![c] = @ \o data]
         /\ chunks' = [chunks EXCEPT ![c] = @ + 1]
         /\ Effects(c, res)
         /\ srvEnded' = [srvEnded EXCEPT ![c] =
                           \E i \in 1..Len(res.out) : "error" \in DOMAIN res.out[i]]
         /\ IF res.at = 0
            THEN /\ buffer' = [buffer EXCEPT ![c] = Remainder(lines)]
                 /\ invs' = invs
            ELSE /\ buffer' = [buffer EXCEPT ![c] = buf]
                 /\ invs' = [invs EXCEPT ![c] = Append(@, [lines |-> lines, i |-> res.at])]
  /\ UNCHANGED <<peerEnded, call, now>>
  /\ UNCHANGED <<life, sockets>>

\* socket.on('data'): n characters arrive in one chunk
ServerData(c, n) ==
  /\ ~srvEnded[c]
  /\ chunks[c] < MaxChunks
  /\ n \in 1..Len(c2s[c])
  /\ LET data  == SubSeq(c2s[c], 1, n)
         buf   == buffer[c] \o data
         lines == Split(buf)
         res   == Loop(lines, 1, NoAcc)
     IN  /\ c2s' = [c2s EXCEPT ![c] = SubSeq(@, n + 1, Len(@))]
         /\ stream' = [stream EXCEPT ![c] = @ \o data]
         /\ chunks' = [chunks EXCEPT ![c] = @ + 1]
         /\ Effects(c, res)
         /\ IF res.at = 0
            THEN /\ buffer' = [buffer EXCEPT ![c] = Remainder(lines)]
                 /\ invs' = invs
            ELSE /\ buffer' = [buffer EXCEPT ![c] = buf]
                 /\ invs' = [invs EXCEPT ![c] = Append(@, [lines |-> lines, i |-> res.at])]
  /\ UNCHANGED <<peerEnded, srvEnded, call, now>>
  /\ UNCHANGED <<life, sockets>>

\* the handler awaited by invocation j of connection c settles; the
\* invocation writes the response and goes on with its own `lines`
HandlerDone(c, j) ==
  /\ j \in 1..Len(invs[c])
  /\ LET inv     == invs[c][j]
         request == Awaited(inv)
         h       == Handler(request.method, Get(request, "params"))
         res     == Loop(inv.lines, inv.i + 1,
                         [NoAcc EXCEPT !.out = <<HandleRequest(request, h)>>])
     IN  /\ h.kind # "never"
         /\ Effects(c, res)
         /\ IF res.at = 0
            THEN /\ buffer' = [buffer EXCEPT ![c] = Remainder(inv.lines)]
                 /\ invs' = [invs EXCEPT ![c] = RemoveAt(@, j)]
            ELSE /\ buffer' = buffer
                 /\ invs' = [invs EXCEPT ![c][j].i = res.at]
  /\ UNCHANGED <<c2s, peerEnded, srvEnded, stream, chunks, call, now>>
  /\ UNCHANGED <<life, sockets>>

\* a plausible slip: at the end of the stream the server decodes what is
\* left in the buffer, as the client does
ServerEndDecodesRest(c) ==
  /\ peerEnded[c] /\ c2s[c] = <<>> /\ ~srvEnded[c]
  /\ srvEnded' = [srvEnded EXCEPT ![c] = TRUE]
  /\ sockets' = sockets \ {c}
  /\ decoded' = [decoded EXCEPT ![c] =
       IF Trim(buffer[c]) = <<>> THEN @ ELSE Append(@, Trim(buffer[c]))]
  /\ UNCHANGED <<buffer, invs, c2s, s2c, peerEnded, stream, chunks,
                 written, call, now>>
  /\ UNCHANGED life

\* socket.on('end'): the peer's FIN has been read; the socket was created
\* without allowHalfOpen, so its writable side ends too
ServerEnd(c) ==
  /\ peerEnded[c] /\ c2s[c] = <<>> /\ ~srvEnded[c]
  /\ srvEnded' = [srvEnded EXCEPT ![c] = TRUE]
  /\ sockets' = sockets \ {c}
  /\ UNCHANGED <<buffer, invs, c2s, s2c, peerEnded, stream, chunks,
                 decoded, written, call, now>>
  /\ UNCHANGED life

----------------------------------------------------------------------------
(* SocketServer.start and SocketServer.stop *)

\* `server` is "null" until start() creates the net.Server, "binding" while
\* listen() is in progress, "listening" while the listener accepts, "failed"
\* after the listener's 'error' event and "closed" once close() has been
\* called on a listener.  `socketFile` is "absent", "stale" (a socket file no
\* listener is bound to) or "live" (the file of the listener).
\* start() and stop() are called one at a time, each after the promise of the
\* previous one has settled, and start() is called on a server that is not
\* listening.

\* fs.unlinkSync inside try/catch: the file is removed, or the failure is
\* logged and the file stays
Unlink(f) == IF dirWritable THEN "absent" ELSE f

\* `if (fs.existsSync(path)) { try { fs.unlinkSync(path) } catch ... }`
Cleanup(f) == IF f # "absent" THEN Unlink(f) ELSE f

\* bind creates the socket file: the path must be free and the directory
\* must allow it
CanBind == socketFile = "absent" /\ dirWritable

\* a plausible slip: start() binds without looking for a stale file
StartWithoutCleanup ==
  /\ server \in {"null", "failed", "closed"}
  /\ startP # "pending" /\ stopP # "pending"
  /\ removed' = FALSE
  /\ server' = "binding"
  /\ startP' = "pending"
  /\ UNCHANGED <<socketFile, dirWritable, stopP, sockets>>
  /\ UNCHANGED <<buffer, invs, c2s, s2c, peerEnded, srvEnded,
                 stream, chunks, decoded, written, call, now>>
  /\ UNCHANGED <<naming, otherServer>>

\* start(): the stale file is removed, the net.Server is created and
\* listen(socketPath) is called
Start ==
  /\ server \in {"null", "failed", "closed"}
  /\ startP # "pending" /\ stopP # "pending"
  /\ socketFile' = Cleanup(socketFile)
  /\ removed' = (socketFile # "absent" /\ dirWritable)
  /\ server' = "binding"
  /\ startP' = "pending"
  /\ UNCHANGED <<dirWritable, stopP, sockets>>
  /\ UNCHANGED <<buffer, invs, c2s, s2c, peerEnded, srvEnded,
                 stream, chunks, decoded, written, call, now>>
  /\ UNCHANGED <<naming, otherServer>>

\* the callback of listen(): the socket is bound and accepting; resolve()
Listening ==
  /\ server = "binding" /\ CanBind
  /\ socketFile' = "live"
  /\ server' = "listening"
  /\ startP' = "resolved"
  /\ UNCHANGED <<dirWritable, stopP, removed, sockets>>
  /\ UNCHANGED <<buffer, invs, c2s, s2c, peerEnded, srvEnded,
                 stream, chunks, decoded, written, call, now>>
  /\ UNCHANGED <<naming, otherServer>>

\* a plausible slip: the 'error' handler logs and does not reject
ListenErrorLogged ==
  /\ server = "binding" /\ ~CanBind
  /\ server' = "failed"
  /\ UNCHANGED <<socketFile, dirWritable, startP, stopP, removed, sockets>>
  /\ UNCHANGED <<buffer, invs, c2s, s2c, peerEnded, srvEnded,
                 stream, chunks, decoded, written, call, now>>
  /\ UNCHANGED <<naming, otherServer>>

\* server.on('error'): binding failed (address in use, or no permission);
\* reject(err)
ListenError ==
  /\ server = "binding" /\ ~CanBind
  /\ server' = "failed"
  /\ startP' = "rejected"
  /\ UNCHANGED <<socketFile, dirWritable, stopP, removed, sockets>>
  /\ UNCHANGED <<buffer, invs, c2s, s2c, peerEnded, srvEnded,
                 stream, chunks, decoded, written, call, now>>
  /\ UNCHANGED <<naming, otherServer>>

\* server.close(callback): the listener stops accepting at once.  Closing
\* the listening handle may or may not remove the socket file, depending on
\* the platform.  The connections that are open stay open.
Closed(f, own) == {IF f = own THEN "stale" ELSE f, "absent"}

Close ==
  /\ stopP' = "pending"
  /\ server' = IF server = "listening" THEN "closed" ELSE server
  /\ IF server = "listening"
     THEN socketFile' \in Closed(socketFile, "live")
     ELSE socketFile' = socketFile

\* a plausible slip: stop() does not test `this.server`
StopAlwaysCloses ==
  /\ startP # "pending" /\ stopP # "pending"
  /\ Close
  /\ UNCHANGED <<dirWritable, startP, removed, sockets>>
  /\ UNCHANGED <<buffer, invs, c2s, s2c, peerEnded, srvEnded,
                 stream, chunks, decoded, written, call, now>>
  /\ UNCHANGED <<naming, otherServer>>

\* stop(): `if (this.server) { this.server.close(...) } else { resolve() }`
Stop ==
  /\ startP # "pending" /\ stopP # "pending"
  /\ IF server # "null"
     THEN Close
     ELSE stopP' = "resolved" /\ UNCHANGED <<server, socketFile>>
  /\ UNCHANGED <<dirWritable, startP, removed, sockets>>
  /\ UNCHANGED <<buffer, invs, c2s, s2c, peerEnded, srvEnded,
                 stream, chunks, decoded, written, call, now>>
  /\ UNCHANGED <<naming, otherServer>>

\* a plausible slip: the callback of close() resolves without cleaning up
StopDoneKeepsFile ==
  /\ stopP = "pending" /\ sockets = {}
  /\ stopP' = "resolved"
  /\ UNCHANGED <<server, socketFile, dirWritable, startP, removed, sockets>>
  /\ UNCHANGED <<buffer, invs, c2s, s2c, peerEnded, srvEnded,
                 stream, chunks, decoded, written, call, now>>
  /\ UNCHANGED <<naming, otherServer>>

\* the callback of server.close(): net.Server calls it when the listener is
\* closed and every connection it accepted has ended; the socket file is
\* removed if it is still there; resolve()
StopDone ==
  /\ stopP = "pending" /\ sockets = {}
  /\ socketFile' = Cleanup(socketFile)
  /\ stopP' = "resolved"
  /\ UNCHANGED <<server, dirWritable, startP, removed, sockets>>
  /\ UNCHANGED <<buffer, invs, c2s, s2c, peerEnded, srvEnded,
                 stream, chunks, decoded, written, call, now>>
  /\ UNCHANGED <<naming, otherServer>>

\* The same operations on a second SocketServer of the process or of another
\* process, constructed from the same name and directory: its socketPath is
\* the same.  The file its listener binds is "taken".

\* start() of the second instance
OtherStart ==
  /\ otherServer \in {"null", "failed", "closed"}
  /\ socketFile' = Cleanup(socketFile)
  /\ otherServer' = "binding"
  /\ UNCHANGED <<server, dirWritable, startP, stopP, removed, sockets, naming>>
  /\ UNCHANGED <<buffer, invs, c2s, s2c, peerEnded, srvEnded,
                 stream, chunks, decoded, written, call, now>>

\* the callback of listen() of the second instance
OtherListening ==
  /\ otherServer = "binding" /\ CanBind
  /\ socketFile' = "taken"
  /\ otherServer' = "listening"
  /\ UNCHANGED <<server, dirWritable, startP, stopP, removed, sockets, naming>>
  /\ UNCHANGED <<buffer, invs, c2s, s2c, peerEnded, srvEnded,
                 stream, chunks, decoded, written, call, now>>

\* server.on('error') of the second instance
OtherListenError ==
  /\ otherServer = "binding" /\ ~CanBind
  /\ otherServer' = "failed"
  /\ UNCHANGED <<server, socketFile, dirWritable, startP, stopP, removed,
                 sockets, naming>>
  /\ UNCHANGED <<buffer, invs, c2s, s2c, peerEnded, srvEnded,
                 stream, chunks, decoded, written, call, now>>

\* stop() of the second instance, once it has a server
OtherStop ==
  /\ otherServer \in {"listening", "failed", "closed"}
  /\ otherServer' = "closing"
  /\ IF otherServer = "listening"
     THEN socketFile' \in Closed(socketFile, "taken")
     ELSE socketFile' = socketFile
  /\ UNCHANGED <<server, dirWritable, startP, stopP, removed, sockets, naming>>
  /\ UNCHANGED <<buffer, invs, c2s, s2c, peerEnded, srvEnded,
                 stream, chunks, decoded, written, call, now>>

\* the callback of server.close() of the second instance, which has no
\* connection open
OtherStopDone ==
  /\ otherServer = "closing"
  /\ socketFile' = Cleanup(socketFile)
  /\ otherServer' = "closed"
  /\ UNCHANGED <<server, dirWritable, startP, stopP, removed, sockets, naming>>
  /\ UNCHANGED <<buffer, invs, c2s, s2c, peerEnded, srvEnded,
                 stream, chunks, decoded, written, call, now>>

----------------------------------------------------------------------------
(* RemoteSkill.call *)

\* `setTimeout(..., 30000)`
CallTimeout == 30000

TickMs == CallTimeout \div TimerSteps

Pending == [kind |-> "pending"]

\* failure: history, the cause of the 'error' event the socket has emitted
\* received: history, all characters the 'data' events have delivered
IdleCall ==
  [st |-> "idle", method |-> "", args |-> <<>>, requestId |-> "", start |-> 0,
   responseBuffer |-> <<>>, outcome |-> Pending, timer |-> "none",
   failure |-> "none", received |-> <<>>]

\* a plausible slip: the outcome is a variable the last event overwrites
SettleLast(outcome, new) == new

\* resolve/reject of the promise: only the first one settles it
Settle(outcome, new) == IF outcome.kind = "pending" THEN new ELSE outcome

\* a JS array of JSON values: the string that spells out its elements in
\* order, so that arrays are equal exactly when their elements are
ArrayOf(elems) == ToString(elems)

\* a plausible slip: the arguments are always sent as the array they are
ParamsAlwaysArray(args) == ArrayOf(args)

\* `params.length === 0 ? undefined : params.length === 1 ? params[0] : params`
Params(args) ==
  IF Len(args) = 0 THEN Undefined
  ELSE IF Len(args) = 1 THEN args[1]
  ELSE ArrayOf(args)

RequestOf(c) ==
  [jsonrpc |-> "2.0", method |-> c.method, params |-> Params(c.args),
   id |-> c.requestId]

\* a plausible slip: a matching response settles the call even after the
\* timer has failed it
OnResponseAfterTimeout(response, requestId, acc) ==
  IF Get(response, "id") = requestId
  THEN [ended   |-> TRUE,
        outcome |-> IF acc.outcome.kind \in {"pending", "timeout"}
                    THEN IF "error" \in DOMAIN response
                         THEN [kind |-> "rpc",
                               message |-> <<"RPC Error: ", response.error.message>>]
                         ELSE [kind |-> "result", value |-> Get(response, "result")]
                    ELSE acc.outcome]
  ELSE acc

\* a plausible slip: the id of the response is not compared
OnResponseAnyId(response, requestId, acc) ==
  [ended   |-> TRUE,
   outcome |-> Settle(acc.outcome,
                 IF "error" \in DOMAIN response
                 THEN [kind |-> "rpc",
                       message |-> <<"RPC Error: ", response.error.message>>]
                 ELSE [kind |-> "result", value |-> Get(response, "result")])]

\* a plausible slip: a response without id is taken for the call's own
OnResponseIdless(response, requestId, acc) ==
  IF Get(response, "id") \in {requestId, Undefined}
  THEN [ended   |-> TRUE,
        outcome |-> Settle(acc.outcome,
                      IF "error" \in DOMAIN response
                      THEN [kind |-> "rpc",
                            message |-> <<"RPC Error: ", response.error.message>>]
                      ELSE [kind |-> "result", value |-> Get(response, "result")])]
  ELSE acc

\* what the data handler does with one decoded response
OnResponse(response, requestId, acc) ==
  IF Get(response, "id") = requestId
  THEN [ended   |-> TRUE,
        outcome |-> Settle(acc.outcome,
                      IF "error" \in DOMAIN response
                      THEN [kind |-> "rpc",
                            message |-> <<"RPC Error: ", response.error.message>>]
                      ELSE [kind |-> "result", value |-> Get(response, "result")])]
  ELSE acc

\* a plausible slip: a line that is not JSON is skipped
RECURSIVE ClientLoopSkipsBadLines(_, _, _, _)
ClientLoopSkipsBadLines(lines, i, requestId, acc) ==
  IF i > Len(lines) - 1 THEN acc
  ELSE
    LET p == JSONParse(Trim(lines[i])) IN
    ClientLoopSkipsBadLines(lines, i + 1, requestId,
      IF Trim(lines[i]) # <<>> /\ p.ok
      THEN OnResponse(p.value, requestId, acc) ELSE acc)

\* the for-loop of the client's data handler over lines[i .. Len-1]
RECURSIVE ClientLoop(_, _, _, _)
ClientLoop(lines, i, requestId, acc) ==
  IF i > Len(lines) - 1 THEN acc
  ELSE
    LET line == Trim(lines[i]) IN
    IF line = <<>> THEN ClientLoop(lines, i + 1, requestId, acc)
    ELSE
      LET p == JSONParse(line) IN
      ClientLoop(lines, i + 1, requestId,
        IF p.ok THEN OnResponse(p.value, requestId, acc)
        ELSE [ended   |-> TRUE,
              outcome |-> Settle(acc.outcome, [kind |-> "syntax"])])

\* socket.end() of the client's socket
SocketEnd(k, ended) ==
  peerEnded' = [peerEnded EXCEPT ![k] = @ \/ ended]

\* call(method, ...args): the connection is requested, the id is taken from
\* the clock and the timer is armed
Call(k, method, args) ==
  /\ call[k].st = "idle"
  /\ call' = [call EXCEPT ![k] =
       [st |-> "connecting", method |-> method, args |-> args,
        requestId |-> ToString(now), start |-> now,
        responseBuffer |-> <<>>, outcome |-> Pending, timer |-> "armed",
        failure |-> "none", received |-> <<>>]]
  /\ UNCHANGED <<buffer, invs, c2s, s2c, peerEnded, srvEnded,
                 stream, chunks, decoded, written, now>>
  /\ UNCHANGED <<life, sockets>>

\* a plausible slip: the request is written when the socket is created and
\* again when it connects
ConnectWritesTwice(k) ==
  /\ call[k].st = "connecting"
  /\ server = "listening"
  /\ sockets' = sockets \cup {k}
  /\ call' = [call EXCEPT ![k].st = "open"]
  /\ c2s' = [c2s EXCEPT ![k] = @ \o Frame(RequestOf(call[k]))
                                  \o Frame(RequestOf(call[k]))]
  /\ UNCHANGED <<buffer, invs, s2c, peerEnded, srvEnded,
                 stream, chunks, decoded, written, now>>
  /\ UNCHANGED life

\* socket.on('connect'): the listener has accepted the connection, and the
\* request frame is written
Connect(k) ==
  /\ call[k].st = "connecting"
  /\ server = "listening"
  /\ sockets' = sockets \cup {k}
  /\ call' = [call EXCEPT ![k].st = "open"]
  /\ c2s' = [c2s EXCEPT ![k] = @ \o Frame(RequestOf(call[k]))]
  /\ UNCHANGED <<buffer, invs, s2c, peerEnded, srvEnded,
                 stream, chunks, decoded, written, now>>
  /\ UNCHANGED life

\* a plausible slip: the timer is cleared when the data handler ends the
\* socket
ClientDataClearsTimer(k, n) ==
  /\ call[k].st \in {"open", "ended"}
  /\ n \in 1..Len(s2c[k])
  /\ LET buf   == call[k].responseBuffer \o SubSeq(s2c[k], 1, n)
         lines == Split(buf)
         res   == ClientLoop(lines, 1, call[k].requestId,
                             [ended |-> FALSE, outcome |-> call[k].outcome])
     IN  /\ s2c' = [s2c EXCEPT ![k] = SubSeq(@, n + 1, Len(@))]
         /\ call' = [call EXCEPT ![k].responseBuffer = Last(lines),
                                 ![k].received = @ \o SubSeq(s2c[k], 1, n),
                                 ![k].outcome = res.outcome,
                                 ![k].timer = IF res.ended THEN "none" ELSE @,
                                 ![k].st = IF res.ended THEN "ended" ELSE @]
         /\ SocketEnd(k, res.ended)
  /\ UNCHANGED <<buffer, invs, c2s, srvEnded,
                 stream, chunks, decoded, written, now>>
  /\ UNCHANGED <<life, sockets>>

\* socket.on('data'): n characters arrive in one chunk
ClientData(k, n) ==
  /\ call[k].st \in {"open", "ended"}
  /\ n \in 1..Len(s2c[k])
  /\ LET buf   == call[k].responseBuffer \o SubSeq(s2c[k], 1, n)
         lines == Split(buf)
         res   == ClientLoop(lines, 1, call[k].requestId,
                             [ended |-> FALSE, outcome |-> call[k].outcome])
     IN  /\ s2c' = [s2c EXCEPT ![k] = SubSeq(@, n + 1, Len(@))]
         /\ call' = [call EXCEPT ![k].responseBuffer = Last(lines),
                                 ![k].received = @ \o SubSeq(s2c[k], 1, n),
                                 ![k].outcome = res.outcome,
                                 ![k].st = IF res.ended THEN "ended" ELSE @]
         /\ SocketEnd(k, res.ended)
  /\ UNCHANGED <<buffer, invs, c2s, srvEnded,
                 stream, chunks, decoded, written, now>>
  /\ UNCHANGED <<life, sockets>>

\* a plausible slip: what is left in the buffer at the end is dropped
ClientEndNoDecode(k) ==
  /\ call[k].st \in {"open", "ended"}
  /\ srvEnded[k] /\ s2c[k] = <<>>
  /\ call' = [call EXCEPT ![k].st = "closed"]
  /\ peerEnded' = [peerEnded EXCEPT ![k] = TRUE]
  /\ UNCHANGED <<buffer, invs, c2s, s2c, srvEnded,
                 stream, chunks, decoded, written, now>>
  /\ UNCHANGED <<life, sockets>>

\* socket.on('end'): the server's FIN has been read; what is left in the
\* buffer gets one decode attempt, and the socket closes
ClientEnd(k) ==
  /\ call[k].st \in {"open", "ended"}
  /\ srvEnded[k] /\ s2c[k] = <<>>
  /\ LET rest == call[k].responseBuffer
         p    == JSONParse(Trim(rest))
         acc  == [ended |-> FALSE, outcome |-> call[k].outcome]
         res  == IF Trim(rest) = <<>> THEN acc
                 ELSE IF p.ok THEN OnResponse(p.value, call[k].requestId, acc)
                 ELSE [acc EXCEPT !.outcome = Settle(@, [kind |-> "syntax"])]
     IN  call' = [call EXCEPT ![k].outcome = res.outcome, ![k].st = "closed"]
  /\ peerEnded' = [peerEnded EXCEPT ![k] = TRUE]
  /\ UNCHANGED <<buffer, invs, c2s, s2c, srvEnded,
                 stream, chunks, decoded, written, now>>
  /\ UNCHANGED <<life, sockets>>

\* a plausible slip: the timer rejects and leaves the socket open
TimeoutWithoutEnd(k) ==
  /\ call[k].timer = "armed"
  /\ now - call[k].start >= CallTimeout
  /\ call' = [call EXCEPT
       ![k].timer = "fired",
       ![k].outcome = Settle(@, [kind |-> "timeout"])]
  /\ UNCHANGED <<buffer, invs, c2s, s2c, peerEnded, srvEnded,
                 stream, chunks, decoded, written, now>>
  /\ UNCHANGED <<life, sockets>>

\* the setTimeout callback: socket.end() and reject
\* a plausible slip: the timer also cancels the handlers of its call
TimeoutAbortsServer(k) ==
  /\ call[k].timer = "armed"
  /\ now - call[k].start >= CallTimeout
  /\ call' = [call EXCEPT
       ![k].timer = "fired",
       ![k].outcome = Settle(@, [kind |-> "timeout"]),
       ![k].st = IF @ \in {"connecting", "open"} THEN "ended" ELSE @]
  /\ SocketEnd(k, TRUE)
  /\ invs' = [invs EXCEPT ![k] = <<>>]
  /\ UNCHANGED <<buffer, c2s, s2c, srvEnded,
                 stream, chunks, decoded, written, now>>
  /\ UNCHANGED <<life, sockets>>

\* a plausible slip: the timer closes the socket and leaves the promise alone
TimeoutWithoutReject(k) ==
  /\ call[k].timer = "armed"
  /\ now - call[k].start >= CallTimeout
  /\ call' = [call EXCEPT
       ![k].timer = "fired",
       ![k].st = IF @ \in {"connecting", "open"} THEN "ended" ELSE @]
  /\ SocketEnd(k, TRUE)
  /\ UNCHANGED <<buffer, invs, c2s, s2c, srvEnded,
                 stream, chunks, decoded, written, now>>
  /\ UNCHANGED <<life, sockets>>

\* setTimeout callback: socket.end(); reject(new Error('... timeout'))
Timeout(k) ==
  /\ call[k].timer = "armed"
  /\ now - call[k].start >= CallTimeout
  /\ call' = [call EXCEPT
       ![k].timer = "fired",
       ![k].outcome = Settle(@, [kind |-> "timeout"]),
       ![k].st = IF @ \in {"connecting", "open"} THEN "ended" ELSE @]
  /\ SocketEnd(k, TRUE)
  /\ UNCHANGED <<buffer, invs, c2s, s2c, srvEnded,
                 stream, chunks, decoded, written, now>>
  /\ UNCHANGED <<life, sockets>>

\* the cause of a connection-level failure: a connection that is being
\* established fails because nothing exists at the path or because nothing
\* listens on the socket file found there; an established one is reset
ErrorCause(k) ==
  IF call[k].st = "connecting"
  THEN IF socketFile = "absent" THEN "ENOENT" ELSE "ECONNREFUSED"
  ELSE "ECONNRESET"

\* the socket of call k emits 'error': both ends are destroyed and what was
\* in flight is lost
Failed(k) ==
  /\ call[k].st \in {"connecting", "open", "ended"}
  /\ call[k].st = "connecting" => server # "listening"
  /\ peerEnded' = [peerEnded EXCEPT ![k] = TRUE]
  /\ srvEnded' = [srvEnded EXCEPT ![k] = TRUE]
  /\ sockets' = sockets \ {k}
  /\ c2s' = [c2s EXCEPT ![k] = <<>>]
  /\ s2c' = [s2c EXCEPT ![k] = <<>>]
  /\ UNCHANGED <<buffer, invs, stream, chunks, decoded, written, now>>
  /\ UNCHANGED life

\* a plausible slip: the error handler logs the failure and does not reject
SocketErrorLogged(k) ==
  /\ Failed(k)
  /\ call' = [call EXCEPT
       ![k].failure = ErrorCause(k),
       ![k].st = "closed"]

\* socket.on('error'): reject(err)
SocketError(k) ==
  /\ Failed(k)
  /\ call' = [call EXCEPT
       ![k].outcome = Settle(@, [kind |-> "error", cause |-> ErrorCause(k)]),
       ![k].failure = ErrorCause(k),
       ![k].st = "closed"]

\* time passes; a timer that is due fires before the clock moves on
Tick ==
  /\ now < MaxTicks * TickMs
  /\ \A k \in Conns :
       call[k].timer = "armed" => now - call[k].start < CallTimeout
  /\ now' = now + TickMs
  /\ UNCHANGED <<buffer, invs, c2s, s2c, peerEnded, srvEnded,
                 stream, chunks, decoded, written, call>>
  /\ UNCHANGED <<life, sockets>>

----------------------------------------------------------------------------
(* Peers that write a byte stream and close at will *)

RawRequests ==
  { [jsonrpc |-> "2.0", method |-> "echo", params |-> "p1", id |-> "1"],
    [jsonrpc |-> "2.0", method |-> "boom", params |-> Undefined, id |-> "2"],
    [jsonrpc |-> "2.0", method |-> "nope", params |-> "p2", id |-> "3"] }

RequestLines == {JSONStringify(r) : r \in RawRequests}

\* a line is a request, bytes that are not JSON, or whitespace only
RawLines == RequestLines \cup {<<XX>>, <<SP>>}

\* what follows the last newline: nothing, or the start of a next frame
RawTails == {<<>>, <<XX>>}

RECURSIVE Join(_)
Join(ls) == IF ls = <<>> THEN <<>> ELSE Head(ls) \o <<NL>> \o Join(Tail(ls))

\* the byte streams of at most len characters an arbitrary peer may write
\* (a line and its newline are at least two characters)
Streams(len) ==
  UNION { {s \in {Join(ls) \o t : ls \in [1..n -> RawLines], t \in RawTails} :
             Len(s) <= len} : n \in 0..(len \div 2) }

\* the byte streams of at most len characters a well-behaved peer writes:
\* whole requests
RequestStreams(len) ==
  UNION { {s \in {Join(ls) : ls \in [1..n -> RequestLines]} :
             Len(s) <= len} : n \in 0..(len \div 2) }

\* a server that has started: the listener accepts at its socket file
Started ==
  /\ server = "listening"
  /\ socketFile = "live"
  /\ dirWritable = TRUE
  /\ startP = "resolved"
  /\ stopP = "none"
  /\ removed = FALSE
  /\ Named
  /\ otherServer = "null"

\* Both connections have been accepted.
\* Connection 1 is fed by an arbitrary peer and connection 2 by a
\* well-behaved one.  Each peer has written its whole stream and called
\* end(): the server reads the FIN after the last byte, or never (the peer
\* keeps the connection open).
Init ==
  /\ \E s1 \in Streams(MaxStreamLen) :
       \E s2 \in RequestStreams(MaxStreamLen - Len(s1)) :
         c2s = [c \in Conns |-> IF c = 1 THEN s1 ELSE s2]
  /\ buffer = [c \in Conns |-> <<>>]
  /\ invs = [c \in Conns |-> <<>>]
  /\ s2c = [c \in Conns |-> <<>>]
  /\ peerEnded = [c \in Conns |-> TRUE]
  /\ srvEnded = [c \in Conns |-> FALSE]
  /\ stream = [c \in Conns |-> <<>>]
  /\ chunks = [c \in Conns |-> 0]
  /\ decoded = [c \in Conns |-> <<>>]
  /\ written = [c \in Conns |-> <<>>]
  /\ call = [c \in Conns |-> IdleCall]
  /\ now = 0
  /\ Started
  /\ sockets = Conns

Next ==
  \E c \in Conns :
    \/ \E n \in 1..Len(c2s[c]) : ServerData(c, n)
    \/ \E j \in 1..Len(invs[c]) : HandlerDone(c, j)
    \/ ServerEnd(c)

Spec == Init /\ [][Next]_vars

\* Connection 1 is fed by a peer that writes lines, then a request without
\* its newline, and ends; connection 2 by a peer that writes nothing.
InitUnterminated ==
  /\ \E s \in {t \in Streams(MaxStreamLen - 4) : t = <<>> \/ Last(t) = NL} :
       \E r \in RequestLines :
         c2s = [c \in Conns |-> IF c = 1 THEN s \o r ELSE <<>>]
  /\ buffer = [c \in Conns |-> <<>>]
  /\ invs = [c \in Conns |-> <<>>]
  /\ s2c = [c \in Conns |-> <<>>]
  /\ peerEnded = [c \in Conns |-> TRUE]
  /\ srvEnded = [c \in Conns |-> FALSE]
  /\ stream = [c \in Conns |-> <<>>]
  /\ chunks = [c \in Conns |-> 0]
  /\ decoded = [c \in Conns |-> <<>>]
  /\ written = [c \in Conns |-> <<>>]
  /\ call = [c \in Conns |-> IdleCall]
  /\ now = 0
  /\ Started
  /\ sockets = Conns

SpecUnterminated == InitUnterminated /\ [][Next]_vars

\* a line is a request, empty, or whitespace only
BlankLines == {<<>>, <<SP>>}

\* the byte streams of at most len characters made of such lines
BlankStreams(len) ==
  UNION { {s \in {Join(ls) : ls \in [1..n -> RequestLines \cup BlankLines]} :
             Len(s) <= len} : n \in 0..len }

\* Connection 1 is fed by a peer that writes requests and blank lines and
\* ends; connection 2 by a peer that writes nothing.
InitBlank ==
  /\ \E s \in BlankStreams(MaxStreamLen - 1) :
       c2s = [c \in Conns |-> IF c = 1 THEN s ELSE <<>>]
  /\ buffer = [c \in Conns |-> <<>>]
  /\ invs = [c \in Conns |-> <<>>]
  /\ s2c = [c \in Conns |-> <<>>]
  /\ peerEnded = [c \in Conns |-> TRUE]
  /\ srvEnded = [c \in Conns |-> FALSE]
  /\ stream = [c \in Conns |-> <<>>]
  /\ chunks = [c \in Conns |-> 0]
  /\ decoded = [c \in Conns |-> <<>>]
  /\ written = [c \in Conns |-> <<>>]
  /\ call = [c \in Conns |-> IdleCall]
  /\ now = 0
  /\ Started
  /\ sockets = Conns

SpecBlank == InitBlank /\ [][Next]_vars

----------------------------------------------------------------------------
(* Calls of RemoteSkill against the server, one connection per call *)

\* the calls made: a method name and the list of arguments
CallInputs ==
  { <<"echo", <<"p1">> >>, <<"echo", <<"p2">> >>, <<"echo", <<>> >>,
    <<"boom", <<>> >>,
    <<"hang", <<>> >>, <<"doesNotExist", <<>> >>, <<"doesNotExist", <<"p1">> >> }

\* nothing has connected and no call has been made
NoTraffic ==
  /\ c2s = [c \in Conns |-> <<>>]
  /\ buffer = [c \in Conns |-> <<>>]
  /\ invs = [c \in Conns |-> <<>>]
  /\ s2c = [c \in Conns |-> <<>>]
  /\ peerEnded = [c \in Conns |-> FALSE]
  /\ srvEnded = [c \in Conns |-> FALSE]
  /\ stream = [c \in Conns |-> <<>>]
  /\ chunks = [c \in Conns |-> 0]
  /\ decoded = [c \in Conns |-> <<>>]
  /\ written = [c \in Conns |-> <<>>]
  /\ call = [c \in Conns |-> IdleCall]
  /\ now = 0
  /\ sockets = {}

InitCall == NoTraffic /\ Started

\* the steps of the calls made on the connections K, of the server and of
\* the clock
CallSteps(K) ==
  \/ \E k \in K :
       \/ \E in \in CallInputs :
            \* a call opens a connection of its own; connections are numbered in the order their calls are made,
            \* and a call is made while the clock can still reach its timeout
            /\ \A j \in Conns : j < k => call[j].st # "idle"
            /\ now + CallTimeout <= MaxTicks * TickMs
            /\ Call(k, in[1], in[2])
       \/ Connect(k)
       \* the one short frame a call writes reaches the server in one chunk
       \/ ServerData(k, Len(c2s[k]))
       \/ \E j \in 1..Len(invs[k]) : HandlerDone(k, j)
       \/ ServerEnd(k)
       \/ \E n \in 1..Len(s2c[k]) : ClientData(k, n)
       \/ ClientEnd(k)
       \/ Timeout(k)
       \/ SocketError(k)
  \/ Tick

NextCall == CallSteps(Conns)

SpecCall == InitCall /\ [][NextCall]_vars

\* what the event loop of either process has to do: deliver a socket
\* event, run a due timer, let time pass
EventLoop ==
  \/ \E k \in Conns :
       \/ Connect(k)
       \/ ServerData(k, Len(c2s[k]))
       \/ ServerEnd(k)
       \/ \E n \in 1..Len(s2c[k]) : ClientData(k, n)
       \/ ClientEnd(k)
       \/ Timeout(k)
  \/ Tick

\* A single call, with an event loop that does not stop while it has
\* something to do.  Nothing makes a handler settle, a call be made or a
\* connection fail.
NextOneCall == CallSteps({1})

FairSpecOneCall == InitCall /\ [][NextOneCall]_vars /\ WF_vars(EventLoop)

----------------------------------------------------------------------------
(* The life cycle of the server, with peers and a call *)

\* a peer connects to the listener and writes nothing
RawConnect(c) ==
  /\ server = "listening"
  /\ call[c].st = "idle" /\ c \notin sockets
  /\ ~peerEnded[c] /\ ~srvEnded[c]
  /\ sockets' = sockets \cup {c}
  /\ UNCHANGED <<buffer, invs, c2s, s2c, peerEnded, srvEnded,
                 stream, chunks, decoded, written, call, now, life>>

\* the peer closes its connection, if it ever does
RawEnd(c) ==
  /\ c \in sockets /\ call[c].st = "idle" /\ ~peerEnded[c]
  /\ peerEnded' = [peerEnded EXCEPT ![c] = TRUE]
  /\ UNCHANGED <<buffer, invs, c2s, s2c, srvEnded,
                 stream, chunks, decoded, written, call, now, life, sockets>>

\* the server has not been started; the socket path is free or holds the
\* file of a previous run, in a directory that is writable or not
InitLife ==
  /\ NoTraffic
  /\ server = "null"
  /\ socketFile \in {"absent", "stale"}
  /\ dirWritable \in BOOLEAN
  /\ startP = "none"
  /\ stopP = "none"
  /\ removed = FALSE
  /\ Named
  /\ otherServer = "null"

\* start() and stop() and the peers on the connections R
LifeSteps(R) ==
  \/ Start
  \/ Listening
  \/ ListenError
  \/ Stop
  \/ StopDone
  \/ \E c \in R :
       \/ RawConnect(c)
       \/ RawEnd(c)
       \/ ServerEnd(c)

\* connection 1 is that of a call, connection 2 that of a peer
NextLife == LifeSteps({2}) \/ CallSteps({1})

SpecLife == InitLife /\ [][NextLife]_vars

\* two SocketServer instances built from the same name, started and stopped
\* independently; no connection is made
NextInstances ==
  \/ Start
  \/ Listening
  \/ ListenError
  \/ Stop
  \/ StopDone
  \/ OtherStart
  \/ OtherListening
  \/ OtherListenError
  \/ OtherStop
  \/ OtherStopDone

SpecInstances == InitLife /\ [][NextInstances]_vars

\* what the event loop of the server process has to do
ServerLoop ==
  \/ Listening
  \/ ListenError
  \/ StopDone
  \/ \E c \in Conns : ServerEnd(c)

\* The server and peers that connect and write nothing, with an event loop
\* of the server that does not stop while it has something to do.  Nothing
\* makes a peer close its connection.
NextPeers == LifeSteps(Conns)

FairSpecPeers == InitLife /\ [][NextPeers]_vars /\ WF_vars(ServerLoop)

----------------------------------------------------------------------------
(* The constructors, for every name and base directory *)

\* nothing is constructed; the name is any name, or the skill's
InitNaming ==
  /\ NoTraffic
  /\ server = "null"
  /\ socketFile = "absent"
  /\ dirWritable = TRUE
  /\ startP = "none"
  /\ stopP = "none"
  /\ removed = FALSE
  /\ className \in Names(MaxNameLen) \cup {WebBrowserSkill}
  /\ socketDir \in Dirs
  /\ socketPath = <<>>
  /\ remotePath = <<>>
  /\ otherServer = "null"

\* the server is constructed with the name; the client with the name or
\* with the name already converted, as the test client does
NextNaming ==
  \/ NewSocketServer
  \/ NewRemoteSkill(className)
  \/ NewRemoteSkill(classNameToSocketName(className))

SpecNaming == InitNaming /\ [][NextNaming]_vars

----------------------------------------------------------------------------
(* One call with enumerated arguments *)

\* the JSON values passed as arguments: strings and an array
ArgValues == {"p1", "p2", ArrayOf(<<"p1", "p2">>)}

ArgLists == UNION {[1..n -> ArgValues] : n \in 0..MaxArgs}

\* a call of a registered and of an unregistered method with every list of
\* arguments, its exchange with the server, and a reset of its connection
NextArgs ==
  \/ \E m \in {"echo", "doesNotExist"} : \E args \in ArgLists : Call(1, m, args)
  \/ Connect(1)
  \/ ServerData(1, Len(c2s[1]))
  \/ \E j \in 1..Len(invs[1]) : HandlerDone(1, j)
  \/ \E n \in 1..Len(s2c[1]) : ClientData(1, n)
  \/ SocketError(1)

SpecArgs == InitCall /\ [][NextArgs]_vars

\* two calls, each with any of these lists of arguments or with the single
\* argument `undefined`, up to the writing of their request frames
NextEncode ==
  \E k \in Conns :
    \/ \E m \in {"echo", "doesNotExist"} :
         \E args \in ArgLists \cup {<<Undefined>>} : Call(k, m, args)
    \/ Connect(k)

SpecEncode == InitCall /\ [][NextEncode]_vars

----------------------------------------------------------------------------
(* One call against a server that answers at will *)

\* the id of a call made at time 0
ReplyId == ToString(0)

\* responses with the id of the call, with another id and with none
RawResponses ==
  { [jsonrpc |-> "2.0", result |-> "r", id |-> ReplyId],
    [jsonrpc |-> "2.0",
     error   |-> [code |-> -32601, message |-> "Method not found"],
     id      |-> ReplyId],
    [jsonrpc |-> "2.0", result |-> "r", id |-> "9"],
    ParseError }

\* a line is a response, bytes that are not JSON, or whitespace only
ReplyLines == {JSONStringify(r) : r \in RawResponses} \cup {<<XX>>, <<SP>>}

\* what the server writes: lines, and then nothing or a line that lacks its
\* newline
Replies(len) ==
  UNION { {s \in {Join(ls) \o t : ls \in [1..n -> ReplyLines],
                                  t \in ReplyLines \cup {<<>>}} :
             Len(s) <= len} : n \in 0..(len \div 2) }

\* the server will write s2c[1] on the connection of the call, whatever the
\* request is
InitClient ==
  /\ s2c \in {[c \in Conns |-> IF c = 1 THEN s ELSE <<>>] : s \in Replies(MaxReplyLen)}
  /\ c2s = [c \in Conns |-> <<>>]
  /\ buffer = [c \in Conns |-> <<>>]
  /\ invs = [c \in Conns |-> <<>>]
  /\ peerEnded = [c \in Conns |-> FALSE]
  /\ srvEnded = [c \in Conns |-> FALSE]
  /\ stream = [c \in Conns |-> <<>>]
  /\ chunks = [c \in Conns |-> 0]
  /\ decoded = [c \in Conns |-> <<>>]
  /\ written = [c \in Conns |-> <<>>]
  /\ call = [c \in Conns |-> IdleCall]
  /\ now = 0
  /\ sockets = {}
  /\ Started

\* the server closes the connection, when it likes
RawServerEnd(k) ==
  /\ k \in sockets /\ ~srvEnded[k]
  /\ srvEnded' = [srvEnded EXCEPT ![k] = TRUE]
  /\ sockets' = sockets \ {k}
  /\ UNCHANGED <<buffer, invs, c2s, s2c, peerEnded,
                 stream, chunks, decoded, written, call, now, life>>

\* the steps of the timer of the call
Timer == Tick \/ Timeout(1)

NextClient ==
  \/ /\ now + CallTimeout <= MaxTicks * TickMs
     /\ Call(1, "echo", <<"p1">>)
  \/ Connect(1)
  \/ \E n \in 1..Len(s2c[1]) : ClientData(1, n)
  \/ RawServerEnd(1)
  \/ ClientEnd(1)
  \/ SocketError(1)
  \/ Timer

SpecClient == InitClient /\ [][NextClient]_vars

\* the same, with a clock that goes on and a timer that fires when due;
\* nothing makes the server answer or close, or the client read
FairSpecClient == InitClient /\ [][NextClient]_vars /\ WF_vars(Timer)

----------------------------------------------------------------------------
(* Vocabulary of the properties *)

\* the newline-terminated lines of a text, and the text after the last newline
CompleteLines(s) == SubSeq(Split(s), 1, Len(Split(s)) - 1)
UnterminatedTail(s) == Last(Split(s))

IsPrefix(s, t) == Len(s) <= Len(t) /\ s = SubSeq(t, 1, Len(s))

Count(s, P(_)) == Cardinality({k \in 1..Len(s) : P(s[k])})

\* the frames of a text: its newline-terminated lines that are not blank
FramesOf(s) == SelectSeq([k \in 1..Len(CompleteLines(s)) |-> Trim(CompleteLines(s)[k])],
                         LAMBDA l : l # <<>>)

IsRequest(l) == JSONParse(l).ok
HasHandler(l) == JSONParse(l).ok /\ Get(JSONParse(l).value, "method") \in methods
RequestId(l) == Get(JSONParse(l).value, "id")
IsErrorWith(w, code) == "error" \in DOMAIN w /\ w.error.code = code

Ids == {Get(r, "id") : r \in RawRequests} \ {Undefined}

RequestsWithId(c, x) ==
  Count(FramesOf(stream[c]), LAMBDA l : IsRequest(l) /\ RequestId(l) = x)
ResponsesWithId(c, x) ==
  Count(written[c], LAMBDA w : Get(w, "id") = x)

----------------------------------------------------------------------------
(* C1 .. C10 *)

\* C1: each request frame carrying an id receives exactly one response with
\* that id on its connection: never two, and never zero once no handler of
\* the connection is pending and the connection is still open.
C1_ExactlyOneResponse ==
  \A c \in Conns : \A x \in Ids :
    /\ ResponsesWithId(c, x) <= RequestsWithId(c, x)
    /\ (invs[c] = <<>> /\ ~srvEnded[c])
         => ResponsesWithId(c, x) >= RequestsWithId(c, x)

\* C2: however the stream is cut into chunks, the lines the server decodes
\* are the frames of the stream received so far, each once and in stream
\* order, and once no handler is pending all of them have been decoded and
\* the buffer holds the unterminated tail.
C2_DecodedAreStreamFrames ==
  \A c \in Conns :
    /\ IsPrefix(decoded[c], FramesOf(stream[c]))
    /\ invs[c] = <<>> =>
         /\ decoded[c] = FramesOf(stream[c])
         /\ buffer[c] = UnterminatedTail(stream[c])

\* C6: a frame that is not JSON yields exactly one parse-error response
\* (code -32700, no id) on its connection.
C6_OneParseErrorPerBadFrame ==
  \A c \in Conns :
    LET bad  == Count(FramesOf(stream[c]), LAMBDA l : ~IsRequest(l))
        errs == Count(written[c], LAMBDA w : IsErrorWith(w, -32700))
    IN  /\ errs <= bad
        /\ (invs[c] = <<>> /\ ~srvEnded[c]) => errs = bad
        /\ \A k \in 1..Len(written[c]) :
             IsErrorWith(written[c][k], -32700) => "id" \notin DOMAIN written[c][k]

\* C8: when the whole stream of a connection is one request frame, the
\* server decodes at most one request, however the frame is cut into chunks,
\* and exactly that request, with its handler invoked once, when all of the
\* frame has arrived.
C8_SplitFrameDispatchedOnce ==
  \A c \in Conns : \A r \in RawRequests :
    (stream[c] \o c2s[c] = Frame(r) /\ r.method \in methods) =>
      /\ IsPrefix(decoded[c], <<JSONStringify(r)>>)
      /\ c2s[c] = <<>> => decoded[c] = <<JSONStringify(r)>>

\* the frame has arrived in three chunks, the last of them the newline alone
C8_Witness ==
  \E r \in RawRequests :
    /\ r.method \in methods
    /\ stream[1] = Frame(r) /\ chunks[1] = 3
    /\ decoded[1] = <<JSONStringify(r)>>

\* C9: dispatch does not wait for an earlier handler: every request frame
\* received on a connection whose method is registered has had its handler
\* invoked, whether or not earlier handlers have completed.
C9_DispatchDoesNotWait ==
  \A c \in Conns :
    Count(decoded[c], HasHandler) >= Count(FramesOf(stream[c]), HasHandler)

\* C3: a call of a registered method whose handler resolves never settles
\* with anything but that value: its result is exactly what the handler
\* resolves to for the call's parameter, and it never fails with an RPC or
\* decode failure.
C3_ResultIsHandlerValue ==
  \A k \in Conns :
    LET h == Handler(call[k].method, Params(call[k].args)) IN
    (call[k].st # "idle" /\ call[k].method \in methods /\ h.kind = "resolve") =>
      /\ call[k].outcome.kind \in {"pending", "result", "timeout", "error"}
      /\ call[k].outcome.kind = "result" => call[k].outcome.value = h.value

C3_Witness ==
  \E k \in Conns :
    /\ call[k].method = "echo" /\ call[k].args = <<"p1">>
    /\ call[k].outcome = [kind |-> "result", value |-> "p1"]

\* C4: every response the server writes to a call of an unregistered method
\* is the error -32601 with the call's id, it is written as soon as the
\* request is decoded, whatever the arguments, and the call never succeeds.
C4_UnknownMethod ==
  \A k \in Conns :
    (call[k].st # "idle" /\ call[k].method \notin methods) =>
      /\ Len(written[k]) = Len(decoded[k])
      /\ \A i \in 1..Len(written[k]) :
           written[k][i] =
             [jsonrpc |-> "2.0",
              error   |-> [code |-> -32601, message |-> "Method not found"],
              id      |-> call[k].requestId]
      /\ call[k].outcome \in
           { Pending, [kind |-> "timeout"],
             [kind |-> "error", cause |-> "ECONNRESET"],
             [kind |-> "rpc", message |-> <<"RPC Error: ", "Method not found">>] }

C4_Witness ==
  \E k \in Conns :
    /\ call[k].method = "doesNotExist" /\ call[k].args = <<"p1">>
    /\ call[k].outcome.kind = "rpc"
    /\ Len(written[k]) = 1

\* C5: every response to a request whose handler fails with "boom" is the
\* error -32603 with data "boom" and the request's id, and a failure is
\* answered like any other request: on an open connection every decoded line
\* whose handler is not pending has its response, so the lines after a
\* failure are decoded and answered, on this and on the other connection.
C5_HandlerFailure ==
  \A c \in Conns :
    /\ \A i \in 1..Len(written[c]) :
         (Get(written[c][i], "id") = "2" \/ IsErrorWith(written[c][i], -32603)) =>
           written[c][i] =
             [jsonrpc |-> "2.0",
              error   |-> [code |-> -32603, message |-> "Internal error",
                           data |-> "boom"],
              id      |-> "2"]
    /\ ~srvEnded[c] => Len(written[c]) + Len(invs[c]) = Len(decoded[c])

\* after a failure the same connection has answered a later request
C5_Witness ==
  /\ Len(written[1]) = 2
  /\ IsErrorWith(written[1][1], -32603)
  /\ written[1][2] = [jsonrpc |-> "2.0", result |-> "p1", id |-> "1"]
  /\ ~srvEnded[1]

\* C7: two calls with distinct ids on two connections: every response written
\* on a call's connection carries that call's id and, if it is a result, the
\* value of that call's own handler, and the call resolves to that value.
C7_OwnResult ==
  \A j, k \in Conns :
    (j # k /\ call[j].st # "idle" /\ call[k].st # "idle"
       /\ call[j].requestId # call[k].requestId) =>
      LET h == Handler(call[k].method, Params(call[k].args)) IN
      /\ \A i \in 1..Len(written[k]) :
           /\ Get(written[k][i], "id") = call[k].requestId
           /\ "result" \in DOMAIN written[k][i] =>
                h.kind = "resolve" /\ written[k][i].result = h.value
      /\ call[k].outcome.kind = "result" =>
           h.kind = "resolve" /\ call[k].outcome.value = h.value

\* the later call has resolved to its own value while the handler of the
\* earlier call, which asks for another value, is still pending
C7_Witness ==
  /\ call[1].method = "echo" /\ call[2].method = "echo"
  /\ Len(call[1].args) = 1 /\ Len(call[2].args) = 1
  /\ call[1].args # call[2].args
  /\ call[1].requestId # call[2].requestId
  /\ invs[1] # <<>> /\ call[1].outcome = Pending
  /\ call[2].outcome = [kind |-> "result", value |-> call[2].args[1]]

\* what holds of a call whose handler never returns in every state: it is
\* pending, timed out or failed by its connection; pending only while its
\* timer is armed and 30 s have not passed; timed out only when 30 s have
\* elapsed; and once the timer has fired the client has ended its socket
C10_HangSafe ==
  \A k \in Conns :
    (call[k].st # "idle" /\ call[k].method = "hang") =>
      /\ call[k].outcome.kind \in {"pending", "timeout", "error"}
      /\ call[k].outcome.kind = "pending" =>
           call[k].timer = "armed" /\ now - call[k].start <= CallTimeout
      /\ call[k].outcome.kind = "timeout" =>
           call[k].timer = "fired" /\ now - call[k].start >= CallTimeout
      /\ call[k].timer = "fired" =>
           call[k].st \in {"ended", "closed"} /\ peerEnded[k]

\* C10: a call whose handler never returns stays pending until its timer
\* fires or its connection fails, the timer fires when 30 s have elapsed and
\* fails the call with the timeout failure, and the call ends up failed with
\* the connection it opened closed on both sides.
C10_HangTimesOut ==
  /\ []C10_HangSafe
  /\ \A k \in Conns :
       (call[k].st # "idle" /\ call[k].method = "hang")
         ~> (/\ call[k].outcome.kind \in {"timeout", "error"}
             /\ call[k].st = "closed" /\ srvEnded[k])

C10_Witness ==
  \E k \in Conns :
    /\ call[k].method = "hang"
    /\ call[k].outcome = [kind |-> "timeout"]
    /\ call[k].st = "closed" /\ srvEnded[k]
    /\ invs[k] # <<>>

----------------------------------------------------------------------------
(* C11 .. C20 *)

\* C11: when the socket of a call that has not settled emits its first
\* 'error', that same step fails the call with the cause of the error and
\* the clock has not moved: "ENOENT" when nothing exists at the path,
\* "ECONNREFUSED" when nothing listens on the file found there, "ECONNRESET"
\* on an established connection.  A call whose socket has failed is never
\* left pending.
C11_FailsWithCause ==
  [][\A k \in Conns :
       LET first == call[k].failure = "none" /\ call'[k].failure # "none"
           cause == IF call[k].st # "connecting" THEN "ECONNRESET"
                    ELSE IF socketFile = "absent" THEN "ENOENT"
                    ELSE "ECONNREFUSED"
       IN  /\ (first /\ call[k].outcome = Pending) =>
                /\ call'[k].outcome = [kind |-> "error", cause |-> cause]
                /\ call'[k].failure = cause
                /\ now' = now
           /\ (first /\ call[k].st = "connecting") => server # "listening"
           /\ call'[k].failure # "none" => call'[k].outcome # Pending
    ]_vars

\* a call against a stale socket file has failed before its timer is due
C11_Witness ==
  \E k \in Conns :
    /\ call[k].outcome = [kind |-> "error", cause |-> "ECONNREFUSED"]
    /\ call[k].timer = "armed"
    /\ now - call[k].start < CallTimeout

\* C12: once a call has settled, no step changes its outcome: no later
\* response frame, socket error, end-of-stream or timer firing.
C12_SettlesOnce ==
  [][\A k \in Conns :
       call[k].outcome # Pending => call'[k].outcome = call[k].outcome]_vars

\* a call that resolved has since seen its timer fire and its socket fail
C12_Witness ==
  \E k \in Conns :
    /\ call[k].outcome.kind = "result"
    /\ call[k].timer = "fired"
    /\ call[k].failure = "ECONNRESET"

\* C13: the timer firing on a pending call fails it with the timeout
\* failure and ends the client's socket, and a call that has timed out
\* stays timed out whatever arrives afterwards.
C13_TimeoutWins ==
  [][\A k \in Conns :
       /\ (call[k].timer = "armed" /\ call'[k].timer = "fired"
             /\ call[k].outcome = Pending) =>
            /\ call'[k].outcome = [kind |-> "timeout"]
            /\ call'[k].st \in {"ended", "closed"}
            /\ peerEnded'[k]
       /\ call[k].outcome = [kind |-> "timeout"] =>
            call'[k].outcome = [kind |-> "timeout"]
    ]_vars

\* the response to a call that timed out was written by the server and has
\* been read and decoded by the client after the timer fired
C13_Witness ==
  \E k \in Conns :
    /\ call[k].method = "echo"
    /\ call[k].outcome = [kind |-> "timeout"]
    /\ call[k].st = "ended"
    /\ Len(written[k]) = 1 /\ Get(written[k][1], "id") = call[k].requestId
    /\ s2c[k] = <<>> /\ call[k].responseBuffer = <<>>

\* C14: in a directory the server may write to, start() never fails,
\* whether or not a file exists at the socket path: listen() is called with
\* the path free, and the listener is bound to a socket file of its own.
C14_StaleFileRemoved ==
  dirWritable =>
    /\ startP # "rejected" /\ server # "failed"
    /\ server = "binding" => socketFile = "absent"
    /\ server = "listening" => socketFile = "live"

\* start() has removed a stale file and has resolved
C14_Witness ==
  /\ removed
  /\ server = "listening" /\ startP = "resolved" /\ socketFile = "live"

\* C15: after stop() has been called on a started server, every connection
\* still open gets closed by the server and stop() resolves, whatever the
\* peers do.
C15_StopTerminatesConnections ==
  (stopP = "pending") ~> (stopP = "resolved" /\ sockets = {})

\* C16: once stop() on a started server has resolved, nothing is accepted
\* any more, no accepted connection is left and no file exists at the
\* socket path.
C16_StoppedAndRemoved ==
  (stopP = "resolved" /\ server = "closed") =>
    /\ socketFile = "absent"
    /\ sockets = {}

\* stop() has resolved on a server that had served a call
C16_Witness ==
  /\ stopP = "resolved" /\ server = "closed"
  /\ call[1].outcome.kind = "result" /\ srvEnded[1]

\* C17: stop() on a server that start() was never called on resolves at
\* once and changes nothing else: not the file at the socket path, not the
\* server, not a connection.
C17_StopNotStarted ==
  [][(server = "null" /\ stopP' # stopP) =>
       /\ stopP' = "resolved"
       /\ UNCHANGED <<server, socketFile, dirWritable, startP, removed, sockets>>
       /\ UNCHANGED <<buffer, invs, c2s, s2c, peerEnded, srvEnded,
                      stream, chunks, decoded, written, call, now>>
    ]_vars

\* stop() has resolved on a server never started, next to a stale file
C17_Witness ==
  server = "null" /\ stopP = "resolved" /\ socketFile = "stale"

\* C18: the promise of start() is pending while listen() is in progress,
\* it resolves only in a step that leaves the listener accepting at its
\* socket file, a failure to bind rejects it, and a rejected start() is
\* never resolved.
C18_StartOutcome ==
  [][/\ (startP # "resolved" /\ startP' = "resolved") =>
          (server' = "listening" /\ socketFile' = "live")
     /\ server' = "binding" => startP' = "pending"
     /\ server' = "failed" => startP' \in {"rejected", "pending"}
     /\ (server = "binding" /\ server' = "failed") => startP' = "rejected"
     /\ startP = "rejected" => startP' \in {"rejected", "pending"}
     /\ startP' = "rejected" => server' = "failed"
    ]_vars

\* start() has failed because the stale file could not be removed
C18_Witness ==
  /\ server = "failed" /\ startP = "rejected"
  /\ socketFile = "stale" /\ ~dirWritable

\* C19: no two calls that are outstanding at the same time carry the same
\* correlation id.
C19_UniqueIds ==
  \A j, k \in Conns :
    (j # k /\ call[j].st # "idle" /\ call[k].st # "idle"
       /\ call[j].outcome = Pending /\ call[k].outcome = Pending) =>
      call[j].requestId # call[k].requestId

\* C20: every response frame written to a call has exactly one of result
\* and error, and carries the id of the call's request.
C20_ResultXorError ==
  \A k \in Conns :
    call[k].st # "idle" =>
      \A i \in 1..Len(written[k]) :
        /\ ("result" \in DOMAIN written[k][i]) # ("error" \in DOMAIN written[k][i])
        /\ Get(written[k][i], "id") = call[k].requestId

----------------------------------------------------------------------------
(* C21 .. C30 *)

\* C21: the request frame a call writes carries the call's method and id,
\* and its params is: no params field for zero arguments, the argument
\* itself for one argument, the ordered sequence of the arguments for two or
\* more; the handler receives that same value.
C21_ParamsCollapse ==
  \A k \in Conns :
    (call[k].st = "open" /\ stream[k] \o c2s[k] # <<>>) =>
      LET obj  == (stream[k] \o c2s[k])[1].obj
          args == call[k].args
      IN  /\ obj.method = call[k].method /\ obj.id = call[k].requestId
          /\ Len(args) = 0 => "params" \notin DOMAIN obj
          /\ Len(args) = 1 => "params" \in DOMAIN obj /\ obj.params = args[1]
          /\ Len(args) >= 2 =>
               "params" \in DOMAIN obj /\ obj.params = ArrayOf(args)
          /\ \A i \in 1..Len(decoded[k]) :
               JSONParse(decoded[k][i]).value = obj

\* a call with two arguments has been answered with the sequence of them
C21_Witness ==
  /\ call[1].method = "echo" /\ call[1].args = <<"p2", "p1">>
  /\ call[1].outcome = [kind |-> "result", value |-> ArrayOf(<<"p2", "p1">>)]

\* C22: what a call has written on its connection is nothing or its one
\* request frame: nothing until the connection is established, the frame
\* from then on, and nothing ever when the connection could not be
\* established; a frame is written only on a connection the listener
\* accepted.
C22_OneFrameOnceConnected ==
  \A k \in Conns :
    LET sent == stream[k] \o c2s[k] IN
    /\ sent \in {<<>>, Frame(RequestOf(call[k]))}
    /\ call[k].st \in {"idle", "connecting"} => sent = <<>>
    /\ call[k].st = "open" => sent = Frame(RequestOf(call[k]))
    /\ call[k].failure \in {"ENOENT", "ECONNREFUSED"} =>
         sent = <<>> /\ decoded[k] = <<>>
    /\ sent # <<>> => (k \in sockets \/ srvEnded[k])

\* the one frame of a call has been written and read by the server
C22_Witness ==
  /\ call[1].st = "open"
  /\ stream[1] = Frame(RequestOf(call[1])) /\ c2s[1] = <<>>

\* C23: when the 'end' event finds a call pending with text in its buffer,
\* the text gets a decode attempt: a response with the call's id settles the
\* call with its result, or with the RPC failure made from error.message,
\* as a newline-terminated frame does; text that is not JSON fails the call
\* with the decode failure; a response with another id settles nothing.
C23_LastDecodeAttempt ==
  [][\A k \in Conns :
       LET rest == Trim(call[k].responseBuffer)
           p    == JSONParse(rest)
       IN  (/\ call[k].st \in {"open", "ended"} /\ call'[k].st = "closed"
            /\ call'[k].failure = call[k].failure
            /\ call[k].outcome = Pending /\ rest # <<>>) =>
             call'[k].outcome =
               IF ~p.ok THEN [kind |-> "syntax"]
               ELSE IF Get(p.value, "id") # call[k].requestId THEN Pending
               ELSE IF "error" \in DOMAIN p.value
               THEN [kind |-> "rpc",
                     message |-> <<"RPC Error: ", p.value.error.message>>]
               ELSE [kind |-> "result", value |-> Get(p.value, "result")]
    ]_vars

\* the connection has ended on an error response that lacks its newline,
\* and the call has failed with it
C23_Witness ==
  /\ call[1].st = "closed"
  /\ call[1].responseBuffer =
       JSONStringify([jsonrpc |-> "2.0",
                      error   |-> [code |-> -32601, message |-> "Method not found"],
                      id      |-> ReplyId])
  /\ call[1].outcome =
       [kind |-> "rpc", message |-> <<"RPC Error: ", "Method not found">>]

\* the lines the client has put to JSON.parse: the frames of what it has
\* received and, once the 'end' event has come, the text left after them
Processed(k) ==
  LET rest == Trim(UnterminatedTail(call[k].received)) IN
  IF call[k].st = "closed" /\ call[k].failure = "none" /\ rest # <<>>
  THEN Append(FramesOf(call[k].received), rest)
  ELSE FramesOf(call[k].received)

\* a line that settles a pending call: not JSON, or a response with its id
Settling(k, l) ==
  ~JSONParse(l).ok \/ Get(JSONParse(l).value, "id") = call[k].requestId

\* what holds of the outcome of a call in every state: it is pending only
\* while no processed line settles; it is the RPC failure only if the first
\* settling line is a response with the call's id and an error field, whose
\* message it carries; it is a result only if that line is such a response
\* without error; it is the decode failure only if that line is not JSON.
\* A timeout or connection failure, which can only settle a pending call,
\* thus comes only when no such response was processed before it.
C24_Safe ==
  \A k \in Conns :
    LET ls    == Processed(k)
        idx   == {i \in 1..Len(ls) : Settling(k, ls[i])}
        first == ls[CHOOSE i \in idx : \A j \in idx : i <= j]
        kind  == call[k].outcome.kind
    IN  /\ kind = "pending" => idx = {}
        /\ kind \in {"rpc", "result", "syntax"} => idx # {}
        /\ kind = "syntax" => ~JSONParse(first).ok
        /\ kind = "result" =>
             JSONParse(first).ok /\ "error" \notin DOMAIN JSONParse(first).value
        /\ kind = "rpc" =>
             /\ JSONParse(first).ok /\ "error" \in DOMAIN JSONParse(first).value
             /\ call[k].outcome.message =
                  <<"RPC Error: ", JSONParse(first).value.error.message>>

\* C24: the outcome of a call tells a refusal by the server from a failure
\* to reach it or to get an answer, and a call whose connection has ended
\* without settling it ends up failed.
C24_FailuresDistinguished ==
  /\ []C24_Safe
  /\ \A k \in Conns :
       (call[k].st = "closed" /\ call[k].outcome = Pending)
         ~> (call[k].outcome.kind \in {"timeout", "error"})

\* the server wrote a response to another call and closed; the call, left
\* pending by the end of the connection, has failed by its timer
C24_Witness ==
  /\ call[1].st = "closed" /\ call[1].failure = "none"
  /\ call[1].received # <<>>
  /\ call[1].outcome = [kind |-> "timeout"]

\* the positions of a name where a lowercase letter is followed by an
\* uppercase one, and the number of them before position i
Transitions(name) ==
  {i \in 1..(Len(name) - 1) : IsLower(name[i]) /\ IsUpper(name[i + 1])}
Before(name, i) == Cardinality({j \in Transitions(name) : j < i})

\* the name with an underscore after each transition, in lowercase
Snake(name) ==
  [p \in 1..(Len(name) + Cardinality(Transitions(name))) |->
     IF \E i \in Transitions(name) : p = i + Before(name, i) + 1
     THEN "_"
     ELSE Lower(name[CHOOSE i \in 1..Len(name) : p = i + Before(name, i)])]

\* C25: the path of a server is that of the file named by the snake-case
\* token of its name followed by ".sock", in the base directory, which is
\* "/tmp" when none is given; it is a function of the name and the
\* directory.  Paths are compared as paths: a repeated separator counts as
\* one.
C25_SocketPath ==
  socketPath # <<>> =>
    socketPath =
      Normalize((IF socketDir = NoDir THEN <<"/", "t", "m", "p">> ELSE socketDir)
                  \o <<"/">> \o Snake(className) \o <<".", "s", "o", "c", "k">>)

\* the path of the server of "WebBrowserSkill" is /tmp/web_browser_skill.sock
C25_Witness ==
  /\ className = WebBrowserSkill /\ socketDir = NoDir
  /\ socketPath =
       <<"/", "t", "m", "p", "/",
         "w", "e", "b", "_", "b", "r", "o", "w", "s", "e", "r", "_",
         "s", "k", "i", "l", "l", ".", "s", "o", "c", "k">>

\* C26: a client made for the name of a server, or for that name already
\* converted, with the same base directory, connects to the path the server
\* binds.
C26_SamePath ==
  (socketPath # <<>> /\ remotePath # <<>>) => remotePath = socketPath

\* server and client are constructed for a name with two transitions, the
\* client's path equal to that of a client given the converted name
C26_Witness ==
  /\ Cardinality(Transitions(className)) = 2
  /\ socketPath # <<>> /\ remotePath = socketPath
  /\ remotePath = RemotePathOf(classNameToSocketName(className), socketDir)

\* C27: a step in which the server reads from a connection, or resumes a
\* handler of it, leaves the buffer, the decoded lines, the pending
\* invocations and the responses of every other connection as they were,
\* and every response that carries an id is on a connection on which a
\* request with that id was received.
C27_OwnConnection ==
  /\ [][\A c, d \in Conns :
          (c # d /\ (stream'[c] # stream[c] \/ invs'[c] # invs[c])) =>
            /\ buffer'[d] = buffer[d] /\ invs'[d] = invs[d]
            /\ decoded'[d] = decoded[d]
            /\ written'[d] = written[d] /\ s2c'[d] = s2c[d]
    ]_vars
  /\ [](\A c \in Conns : \A i \in 1..Len(written[c]) :
          "id" \in DOMAIN written[c][i] =>
            RequestsWithId(c, written[c][i].id) > 0)

\* each connection has the response to its own request, and connection 1
\* alone holds a partial frame in its buffer
C27_Witness ==
  /\ written[1] = <<[jsonrpc |-> "2.0", result |-> "p1", id |-> "1"]>>
  /\ written[2] =
       <<[jsonrpc |-> "2.0",
          error   |-> [code |-> -32601, message |-> "Method not found"],
          id      |-> "3"]>>
  /\ buffer[1] = <<XX>> /\ buffer[2] = <<>>

\* C28: the server side of a connection ends only in a step that reads the
\* peer's end, after all the peer's bytes, and writes nothing; whatever
\* errors it has answered, the server is listening, every connection whose
\* peer's end it has not read is open, and on an open connection every
\* decoded line has its response or a pending handler.
C28_NeverClosesFirst ==
  [][/\ \A c \in Conns :
          (srvEnded'[c] /\ ~srvEnded[c]) =>
            /\ peerEnded[c] /\ c2s[c] = <<>>
            /\ written'[c] = written[c]
     /\ server' = "listening"
     /\ \A c \in Conns :
          ~srvEnded'[c] =>
            /\ c \in sockets'
            /\ Len(written'[c]) + Len(invs'[c]) = Len(decoded'[c])
    ]_vars

\* after a parse error the same connection, still open, has answered a
\* request
C28_Witness ==
  /\ Len(written[1]) = 2
  /\ IsErrorWith(written[1][1], -32700)
  /\ written[1][2] = [jsonrpc |-> "2.0", result |-> "p1", id |-> "1"]
  /\ ~srvEnded[1] /\ 1 \in sockets /\ server = "listening"

\* C29: the step in which a call's timer fires changes nothing on the
\* server: no byte is sent to it, its pending handlers, buffers, responses
\* and connections are as before; a handler that completes on a connection
\* the server has ended is removed from the pending ones, writes nothing,
\* and leaves the server listening.
C29_TimeoutIsClientOnly ==
  [][/\ \A k \in Conns :
          (call[k].timer = "armed" /\ call'[k].timer = "fired") =>
            /\ UNCHANGED <<c2s, s2c, buffer, invs, decoded, written>>
            /\ UNCHANGED <<srvEnded, server, sockets>>
     /\ \A c \in Conns :
          (srvEnded[c] /\ invs'[c] # invs[c]) =>
            /\ Len(invs'[c]) < Len(invs[c]) \/ Len(decoded'[c]) > Len(decoded[c])
            /\ written'[c] = written[c] /\ s2c'[c] = s2c[c]
            /\ server' = "listening"
    ]_vars

\* call 1 timed out with its handler in flight; the handler completed
\* afterwards and its response was dropped; call 2 got its result
C29_Witness ==
  /\ call[1].outcome.kind = "timeout"
  /\ decoded[1] # <<>> /\ invs[1] = <<>> /\ written[1] = <<>>
  /\ srvEnded[1]
  /\ call[2].outcome.kind = "result"
  /\ call[2].start >= call[1].start + CallTimeout
  /\ server = "listening"

\* C30: a call that is pending has its timer armed, and every call that has
\* been made ends up settled: with a result, an RPC error, a transport
\* error or the timeout, whatever the server writes and whenever it closes.
C30_EventuallySettles ==
  /\ [](\A k \in Conns :
          (call[k].st # "idle" /\ call[k].outcome = Pending) =>
            call[k].timer = "armed")
  /\ \A k \in Conns :
       (call[k].st # "idle") ~> (call[k].outcome # Pending)

\* the server never closed and the client read nothing of what the server
\* wrote: the call has settled by its timer
C30_Witness ==
  /\ call[1].outcome = [kind |-> "timeout"]
  /\ call[1].received = <<>> /\ s2c[1] # <<>>
  /\ ~srvEnded[1] /\ 1 \in sockets

----------------------------------------------------------------------------
(* C31 .. C39 *)

\* C31: whenever no handler invocation is pending on a connection, its
\* decode buffer is the text received after the last newline of its stream.
C31_BufferIsTail ==
  \A c \in Conns :
    invs[c] = <<>> => buffer[c] = UnterminatedTail(stream[c])

\* C32: while a listener is listening, the socket file at its path is the
\* one it bound, whatever another SocketServer instance built from the same
\* name starts or stops.
C32_LiveFileKept ==
  /\ server = "listening" => socketFile = "live"
  /\ otherServer = "listening" => socketFile = "taken"

\* C33: the timer of a call is armed from the call on and until the timeout
\* has elapsed, whether or not the call has settled; its only change is to
\* fire, once the timeout has elapsed; when it fires on a settled call the
\* outcome stays what it was, the client's socket is ended, and nothing else
\* changes.
C33_TimerNeverCancelled ==
  /\ [](\A k \in Conns :
          (call[k].st # "idle" /\ now - call[k].start < CallTimeout) =>
            call[k].timer = "armed")
  /\ [][\A k \in Conns :
          call'[k].timer # call[k].timer =>
            \/ call[k].timer = "none" /\ call'[k].timer = "armed"
            \/ /\ call[k].timer = "armed" /\ call'[k].timer = "fired"
               /\ now - call[k].start >= CallTimeout
               /\ call[k].outcome # Pending =>
                    /\ call'[k].outcome = call[k].outcome
                    /\ peerEnded'[k]
                    /\ UNCHANGED <<c2s, s2c, buffer, invs, srvEnded, sockets>>
    ]_vars

\* the timer has fired on a call that had its result, and on a call that
\* had failed by a connection error
C33_Witness ==
  /\ call[1].outcome.kind = "result" /\ call[1].timer = "fired"
  /\ call[2].outcome.kind = "error" /\ call[2].timer = "fired"

\* C34: as long as every line the client has processed is a well-formed
\* response whose id is not the call's (the id-less parse-error response
\* included), the call is pending or has failed by its timer or by a
\* connection error; it is pending while the timer is armed and no
\* connection error has occurred, and the client has not ended its socket
\* while, in addition, the server has not ended the connection.
C34_OtherIdsIgnored ==
  \A k \in Conns :
    (call[k].st # "idle" /\
     \A i \in 1..Len(Processed(k)) : ~Settling(k, Processed(k)[i])) =>
      /\ call[k].outcome.kind \in {"pending", "timeout", "error"}
      /\ (call[k].timer = "armed" /\ call[k].failure = "none") =>
           /\ call[k].outcome = Pending
           /\ ~srvEnded[k] =>
                (call[k].st \in {"connecting", "open"} /\ ~peerEnded[k])

\* the client has read the parse-error response and a response to another
\* call: the call is pending and its connection open
C34_Witness ==
  /\ FramesOf(call[1].received) =
       <<JSONStringify(ParseError),
         JSONStringify([jsonrpc |-> "2.0", result |-> "r", id |-> "9"])>>
  /\ call[1].outcome = Pending /\ call[1].st = "open"
  /\ ~peerEnded[1]

\* C35: when the data handler of a pending call processes lines of which
\* the first that is not a response to another call is not valid JSON, the
\* call fails in that step with the decode failure and the client ends its
\* socket, whatever follows that line; and the decode failure stays the
\* outcome of the call, whatever arrives later.
C35_BadLineFailsCall ==
  [][\A k \in Conns :
       LET old  == FramesOf(call[k].received)
           new  == FramesOf(call'[k].received)
           idx  == {i \in (Len(old) + 1)..Len(new) : Settling(k, new[i])}
           frst == new[CHOOSE i \in idx : \A j \in idx : i <= j]
       IN  /\ (call[k].outcome = Pending /\ idx # {} /\ ~JSONParse(frst).ok) =>
                /\ call'[k].outcome = [kind |-> "syntax"]
                /\ call'[k].st = "ended" /\ peerEnded'[k]
           /\ call[k].outcome = [kind |-> "syntax"] =>
                call'[k].outcome = call[k].outcome
    ]_vars

\* a line that is not JSON and the response to the call have arrived, in
\* this order: the call has failed with the decode failure
C35_Witness ==
  /\ FramesOf(call[1].received) =
       << <<XX>>,
          JSONStringify([jsonrpc |-> "2.0", result |-> "r", id |-> ReplyId]) >>
  /\ call[1].requestId = ReplyId
  /\ call[1].outcome = [kind |-> "syntax"]
  /\ peerEnded[1]

\* C36: every line the server has decoded is a newline-terminated line of
\* the stream; a request that stands after the last newline, and nowhere
\* before it, has not been decoded and has no response; and the step in
\* which the server reads the end of the stream decodes nothing, invokes
\* no handler and writes nothing.
C36_NoDecodeWithoutNewline ==
  /\ [](\A c \in Conns :
          LET frames == FramesOf(stream[c])
              t      == Trim(UnterminatedTail(stream[c]))
          IN  /\ \A i \in 1..Len(decoded[c]) :
                   \E l \in 1..Len(frames) : frames[l] = decoded[c][i]
              /\ (t # <<>> /\ IsRequest(t) /\
                  \A l \in 1..Len(frames) : frames[l] # t) =>
                   /\ \A i \in 1..Len(decoded[c]) : decoded[c][i] # t
                   /\ ResponsesWithId(c, RequestId(t)) = 0)
  /\ [][\A c \in Conns :
          (srvEnded'[c] /\ ~srvEnded[c]) =>
            UNCHANGED <<decoded, invs, written, s2c, buffer>>
    ]_vars

\* the peer has written a request, then another without its newline, and
\* ended; the server has read the end of the stream, has answered the
\* first and has the second in its buffer
C36_Witness ==
  /\ srvEnded[1] /\ invs[1] = <<>>
  /\ Len(written[1]) = 1 /\ Len(decoded[1]) = 1
  /\ IsRequest(buffer[1])
  /\ buffer[1] = UnterminatedTail(stream[1])
  /\ IsRequest(decoded[1][1])
  /\ RequestId(buffer[1]) # RequestId(decoded[1][1])

\* C37: the server passes no empty or whitespace-only line to JSON.parse
\* and writes no more parse-error responses than it has decoded lines that
\* are not JSON; and when the whole stream of an open connection arrived in
\* one chunk and no handler is pending, the lines decoded are the lines of
\* the stream that are not blank, in order, and each has its response.
C37_BlankLinesSkipped ==
  \A c \in Conns :
    /\ \A i \in 1..Len(decoded[c]) : Trim(decoded[c][i]) # <<>>
    /\ Count(written[c], LAMBDA w : IsErrorWith(w, -32700))
         <= Count(decoded[c], LAMBDA l : ~IsRequest(l))
    /\ (chunks[c] = 1 /\ c2s[c] = <<>> /\ invs[c] = <<>> /\ ~srvEnded[c]) =>
         /\ decoded[c] = FramesOf(stream[c])
         /\ Len(written[c]) = Len(decoded[c])
         /\ \A i \in 1..Len(written[c]) :
              Get(written[c][i], "id") = RequestId(decoded[c][i])

\* an empty line, a line of whitespace and a request arrived in one chunk:
\* the request alone has been decoded and answered
C37_Witness ==
  /\ stream[1] = <<NL, SP, NL>> \o Frame([jsonrpc |-> "2.0", method |-> "echo",
                                          params |-> "p1", id |-> "1"])
  /\ chunks[1] = 1 /\ ~srvEnded[1]
  /\ Len(decoded[1]) = 1
  /\ written[1] = <<[jsonrpc |-> "2.0", result |-> "p1", id |-> "1"]>>

\* C38: two calls of the same method with different lists of arguments
\* have written different request frames.
C38_EncodingInjective ==
  \A j, k \in Conns :
    (/\ call[j].st = "open" /\ call[k].st = "open"
     /\ call[j].method = call[k].method
     /\ call[j].args # call[k].args) =>
      stream[j] \o c2s[j] # stream[k] \o c2s[k]

\* C39: of two calls that carry the same id, each has on its connection
\* only responses to its own request, and settles, if by a response, with
\* what its own request yields: the value of its handler, the failure of
\* its handler, or the refusal of its method.
C39_SameIdOwnResponse ==
  \A j, k \in Conns :
    (j # k /\ call[j].st # "idle" /\ call[k].st # "idle"
       /\ call[j].requestId = call[k].requestId) =>
      LET h    == Handler(call[k].method, Params(call[k].args))
          known == call[k].method \in methods
      IN
      /\ \A i \in 1..Len(written[k]) :
           /\ "result" \in DOMAIN written[k][i] =>
                known /\ h.kind = "resolve" /\ written[k][i].result = h.value
           /\ "error" \in DOMAIN written[k][i] =>
                IF known
                THEN h.kind = "reject" /\ written[k][i].error.code = -32603
                ELSE written[k][i].error.code = -32601
      /\ call[k].outcome.kind = "result" =>
           known /\ h.kind = "resolve" /\ call[k].outcome.value = h.value
      /\ call[k].outcome.kind = "rpc" =>
           call[k].outcome.message =
             <<"RPC Error: ",
               IF known THEN "Internal error" ELSE "Method not found">>
      /\ (call[k].outcome.kind = "rpc" /\ known) => h.kind = "reject"

\* two calls made in the same millisecond with different arguments have
\* each resolved to their own argument
C39_Witness ==
  /\ call[1].st # "idle" /\ call[1].requestId = call[2].requestId
  /\ call[1].start = call[2].start
  /\ call[1].outcome = [kind |-> "result", value |-> "p1"]
  /\ call[2].outcome = [kind |-> "result", value |-> "p2"]

====
